---- MODULE Spec2Model ----
(***************************************************************************)
(* Model of the codetrust relay: src/server.js lines 1-187 (the server     *)
(* whose webhook handler delegates to checkRepoSafetyAndReport) and the    *)
(* classifier analyzeReports, lines 356-368.  Lines 189-354 are an earlier *)
(* copy of the same server; its registry code is identical, and its        *)
(* webhook handler, which awaits the fetch and notifies nobody, is not     *)
(* modelled.                                                               *)
(*                                                                         *)
(* Every Express handler runs its synchronous section atomically; an       *)
(* `await` on an outbound HTTP call ends the step, and the completion of   *)
(* that call (success or failure) is a later step of its own.              *)
(***************************************************************************)
EXTENDS Integers, Sequences, FiniteSets, TLC

\* ------------------------------------------------------------------ bounds
MaxListLen == 2      \* longest org list
MaxPayload == 2      \* most repositories / repos listed in one request body
MaxChains == 1       \* trigger webhooks received
MaxReports == 2      \* longest reportList handed to analyzeReports
MaxAlerts == 1       \* most alerts an upstream listing returns

\* ------------------------------------------------------------- input sets
Repos == {"o1/r1", "o1/r2"}
\* org names a client can name; Logins are the accounts installation
\* payloads come from (the owner of the repositories they list)
Orgs == {"o1", "o2"}
Logins == {"o1"}
\* the GET /checkIfSafeToUse requests followed through their upstream calls
RequestIds == {"q1"}
\* installation ids a payload can carry; 0 is the falsy id the
\* `if (!installationId)` tests of lines 115 and 138 react to
InstallationIds == {0, 7}
Undefined == -1
\* `!org` of line 60 is true for a missing (or empty) org
MissingOrg == ""
TriggerEvents == {"push", "pull_request", "dependabot_alert", "codeql_alert"}
EventTypes == TriggerEvents \cup {"installation", "ping"}

SeqsUpTo(S, n) == UNION {[1..k -> S] : k \in 0..n}
Range(s) == {s[i] : i \in 1..Len(s)}
Count(s, x) == Cardinality({i \in 1..Len(s) : s[i] = x})

VARIABLES
    installedRepositories,  \* Map repoFullName -> installationId (line 15)
    orgRepositories,        \* Map orgName -> [repoFullName] (line 16)
    everAdded,              \* history: repos ever passed to addRepository
    everRegistered,         \* history: orgs named by an installation webhook or
                            \* by a POST /addOrgWithRepos answered 200
    chains,                 \* runs of checkRepoSafetyAndReport, one per trigger webhook
    requests,               \* GET /checkIfSafeToUse requests past the 404 check, by id
    outbound,               \* outbound HTTP calls issued so far, per kind
    res,                    \* response sent by the handler that ran last
    reportList,             \* classifier harness: argument of analyzeReports
    result                  \* classifier harness: what analyzeReports produced

vars == <<installedRepositories, orgRepositories, everAdded, everRegistered, chains, requests,
          outbound, res, reportList, result>>
regVars == <<installedRepositories, orgRepositories, everAdded, everRegistered>>
harnessVars == <<reportList, result>>

\* ------------------------------------------------------------ Map helpers
MapHas(m, k) == k \in DOMAIN m
MapGet(m, k) == IF k \in DOMAIN m THEN m[k] ELSE Undefined
MapSet(m, k, v) == [x \in (DOMAIN m) \cup {k} |-> IF x = k THEN v ELSE m[x]]
\* JavaScript truthiness of an installation id (undefined and 0 are falsy)
Truthy(v) == v /= Undefined /\ v /= 0

\* ============================================================ Classifier
\* A report field as analyzeReports sees it: undefined (the field is absent
\* from the report), a string (a sequence of text pieces) or an array of
\* alert objects (identified by number).
\* the check-mark character U+2705 that both sentinel strings start with
Marker == "U+2705"
UndefinedField == [type |-> "undefined", chars |-> <<>>, items |-> <<>>]
StringField(pieces) == [type |-> "string", chars |-> pieces, items |-> <<>>]
ArrayField(n) == [type |-> "array", chars |-> <<>>, items |-> [i \in 1..n |-> i]]
ClearCodeql == StringField(<<Marker, " No CodeQL alerts">>)
ClearDependabot == StringField(<<Marker, " No Dependabot alerts">>)

\* x.includes(Marker): substring test on a string; on an array it is an element
\* test, and an alert object is never equal to a string; on undefined it
\* throws a TypeError.
IncludesThrows(field) == field.type = "undefined"
Includes(field) ==
    /\ field.type = "string"
    /\ \E i \in 1..Len(field.chars) : field.chars[i] = Marker


\* One element of the map callback of analyzeReports.  `a && b` and `a || b`
\* short-circuit, so dependabot.includes is evaluated only when
\* codeql.includes returned true.
VerdictThrows(report) ==
    \/ IncludesThrows(report.codeql)
    \/ Includes(report.codeql) /\ IncludesThrows(report.dependabot)

\* the verdict with `||` in place of the `&&` of line 363
VerdictOf_Or(report) ==
    LET safe == Includes(report.codeql) \/ Includes(report.dependabot)
        unsafe == ~Includes(report.codeql) \/ ~Includes(report.dependabot)
    IN [repoFullName |-> report.repoFullName,
        safeToUse |-> safe,
        message |-> IF unsafe THEN "NOT safe to use due to security alerts"
                    ELSE "is safe to use"]

VerdictOf(report) ==
    LET safe == Includes(report.codeql) /\ Includes(report.dependabot)
        unsafe == ~Includes(report.codeql) \/ ~Includes(report.dependabot)
    IN [repoFullName |-> report.repoFullName,
        safeToUse |-> safe,
        message |-> IF unsafe THEN "NOT safe to use due to security alerts"
                    ELSE "is safe to use"]

Threw == [threw |-> TRUE, verdicts |-> <<>>]

\* analyzeReports without the `reportList.length === 0` test of line 357
analyzeReports_NoLengthCheck(input) ==
    IF ~input.isArray
    THEN Threw
    ELSE IF \E i \in 1..Len(input.items) : VerdictThrows(input.items[i])
         THEN Threw
         ELSE [threw |-> FALSE,
               verdicts |-> [i \in 1..Len(input.items) |-> VerdictOf(input.items[i])]]

\* input: [isArray |-> BOOLEAN, items |-> sequence of reports]
analyzeReports(input) ==
    IF ~input.isArray \/ Len(input.items) = 0
    THEN Threw
    ELSE IF \E i \in 1..Len(input.items) : VerdictThrows(input.items[i])
         THEN Threw
         ELSE [threw |-> FALSE,
               verdicts |-> [i \in 1..Len(input.items) |-> VerdictOf(input.items[i])]]

\* ======================================================= Report Fetcher
ErrorReport == [error |-> TRUE, codeql |-> UndefinedField, dependabot |-> UndefinedField]

\* return value of fetchSecurityReports when both listings answered, with
\* nCodeql and nDependabot alerts
FetchedReport(nCodeql, nDependabot) ==
    [error |-> FALSE,
     codeql |-> IF nCodeql > 0 THEN ArrayField(nCodeql) ELSE ClearCodeql,
     dependabot |-> IF nDependabot > 0 THEN ArrayField(nDependabot) ELSE ClearDependabot]

\* { repoFullName, ...report }
WithName(repoFullName, report) ==
    [repoFullName |-> repoFullName, error |-> report.error,
     codeql |-> report.codeql, dependabot |-> report.dependabot]

\* ============================================================== Registry
Registry == [installed |-> installedRepositories, orgs |-> orgRepositories]

\* addRepository recording the installation but not listing the repo under
\* its org (line 46 missing)
addRepository_NoPush(reg, repoFullName, orgName, installationId) ==
    LET orgs1 == IF MapHas(reg.orgs, orgName) THEN reg.orgs
                 ELSE MapSet(reg.orgs, orgName, <<>>)
    IN [installed |-> MapSet(reg.installed, repoFullName, installationId),
        orgs |-> orgs1]

\* addRepository storing a fresh one-element list for the org
\* (`orgRepositories.set(orgName, [repoFullName])`) instead of pushing
addRepository_Replace(reg, repoFullName, orgName, installationId) ==
    [installed |-> MapSet(reg.installed, repoFullName, installationId),
     orgs |-> MapSet(reg.orgs, orgName, <<repoFullName>>)]
addRepository(reg, repoFullName, orgName, installationId) ==
    LET orgs1 == IF MapHas(reg.orgs, orgName) THEN reg.orgs
                 ELSE MapSet(reg.orgs, orgName, <<>>)
    IN [installed |-> MapSet(reg.installed, repoFullName, installationId),
        orgs |-> MapSet(orgs1, orgName, Append(orgs1[orgName], repoFullName))]

\* payload.repositories.forEach(repo => addRepository(...))
RECURSIVE AddAll(_, _, _, _)
AddAll(reg, repositories, login, id) ==
    IF repositories = <<>> THEN reg
    ELSE AddAll(addRepository(reg, Head(repositories), login, id),
                Tail(repositories), login, id)

\* GET /checkIfAdded testing installedRepositories.get(repoUrl) for
\* truthiness instead of installedRepositories.has(repoUrl)
CheckIfAddedStatus_Truthy(repoUrl) ==
    IF Truthy(MapGet(installedRepositories, repoUrl)) THEN 200 ELSE 404

\* GET /checkIfAdded: the status it answers for repoUrl in the current state
CheckIfAddedStatus(repoUrl) ==
    IF MapHas(installedRepositories, repoUrl) THEN 200 ELSE 404

\* repos.forEach(repo => { if (!list.includes(repo)) list.push(repo) })
RECURSIVE PushMissing(_, _)
PushMissing(list, repos) ==
    IF repos = <<>> THEN list
    ELSE PushMissing(IF Head(repos) \in Range(list) THEN list
                     ELSE Append(list, Head(repos)), Tail(repos))

NullOrg == "null"
\* linear scan over the org lists; only whether an org is found is used by
\* the caller (the name goes to the log)
getOrgForRepo(repoFullName) ==
    LET holders == {o \in DOMAIN orgRepositories :
                        repoFullName \in Range(orgRepositories[o])}
    IN IF holders = {} THEN NullOrg ELSE CHOOSE o \in holders : TRUE

\* ================================================================== Init
EmptyMap == [x \in {} |-> 0]
NotCalled == [called |-> FALSE, threw |-> FALSE, verdicts |-> <<>>]
NoInput == [isArray |-> FALSE, items |-> <<>>]
NoCalls == [token |-> 0, codeql |-> 0, dependabot |-> 0, notify |-> 0]
Response(route, status) == [route |-> route, status |-> status]
Issue(calls, kind) == [calls EXCEPT ![kind] = @ + 1]

\* the handler's locals: org, the loop position i in the org's list, the
\* reports array, the codeql listing held while the dependabot one is awaited;
\* and its history: the length of the org's list when the request was
\* received, the list positions the reports were pushed for and the
\* positions skipped by `continue`
NewRequest(org) ==
    [org |-> org, i |-> 1, pc |-> "idle", status |-> 0,
     codeqlAlerts |-> 0, reports |-> <<>>,
     received |-> 0, positions |-> <<>>, skipped |-> {}]

Init ==
    /\ installedRepositories = EmptyMap
    /\ orgRepositories = EmptyMap
    /\ everAdded = {}
    /\ everRegistered = {}
    /\ chains = <<>>
    /\ requests = [k \in RequestIds |-> NewRequest("")]
    /\ outbound = NoCalls
    /\ res = Response("none", 0)
    /\ reportList = NoInput
    /\ result = NotCalled

\* ================================================= GET /checkIfAdded
CheckIfAdded(repoUrl) ==
    /\ res' = Response("checkIfAdded", CheckIfAddedStatus(repoUrl))
    /\ UNCHANGED <<regVars, chains, requests, outbound, harnessVars>>

\* ================================================ POST /addOrgWithRepos
\* POST /addOrgWithRepos pushing the installed repos of the batch before it
\* rejects the batch for the ones that are not installed
AddOrgWithRepos_PartialPush(org, isArray, repos) ==
    IF org = MissingOrg \/ ~isArray \/ Len(repos) = 0
    THEN /\ res' = Response("addOrgWithRepos", 400)
         /\ UNCHANGED <<regVars, chains, requests, outbound, harnessVars>>
    ELSE LET orgs1 == IF MapHas(orgRepositories, org) THEN orgRepositories
                      ELSE MapSet(orgRepositories, org, <<>>)
             installedRepos ==
                 SelectSeq(repos, LAMBDA r : MapHas(installedRepositories, r))
             list1 == PushMissing(orgs1[org], installedRepos)
         IN /\ Len(list1) <= MaxListLen
            /\ orgRepositories' = MapSet(orgs1, org, list1)
            /\ res' = Response("addOrgWithRepos",
                                IF Len(installedRepos) < Len(repos) THEN 400 ELSE 200)
            /\ UNCHANGED <<installedRepositories, everAdded, everRegistered, chains,
                           requests, outbound, harnessVars>>

\* POST /addOrgWithRepos without the notInstalledRepos test of lines 68-74
AddOrgWithRepos_NoInstallCheck(org, isArray, repos) ==
    IF org = MissingOrg \/ ~isArray \/ Len(repos) = 0
    THEN /\ res' = Response("addOrgWithRepos", 400)
         /\ UNCHANGED <<regVars, chains, requests, outbound, harnessVars>>
    ELSE LET orgs1 == IF MapHas(orgRepositories, org) THEN orgRepositories
                      ELSE MapSet(orgRepositories, org, <<>>)
             list1 == PushMissing(orgs1[org], repos)
         IN /\ Len(list1) <= MaxListLen
            /\ orgRepositories' = MapSet(orgs1, org, list1)
            /\ res' = Response("addOrgWithRepos", 200)
            /\ UNCHANGED <<installedRepositories, everAdded, everRegistered, chains,
                           requests, outbound, harnessVars>>

\* POST /addOrgWithRepos without the repos.length === 0 test of line 60
AddOrgWithRepos_AcceptsEmpty(org, isArray, repos) ==
    IF org = MissingOrg \/ ~isArray
    THEN /\ res' = Response("addOrgWithRepos", 400)
         /\ UNCHANGED <<regVars, chains, requests, outbound, harnessVars>>
    ELSE LET orgs1 == IF MapHas(orgRepositories, org) THEN orgRepositories
                      ELSE MapSet(orgRepositories, org, <<>>)
             notInstalledRepos ==
                 SelectSeq(repos, LAMBDA r : ~MapHas(installedRepositories, r))
             list1 == PushMissing(orgs1[org], repos)
         IN IF Len(notInstalledRepos) > 0
            THEN /\ orgRepositories' = orgs1
                 /\ res' = Response("addOrgWithRepos", 400)
                 /\ UNCHANGED <<installedRepositories, everAdded, everRegistered,
                                chains, requests, outbound, harnessVars>>
            ELSE /\ Len(list1) <= MaxListLen
                 /\ orgRepositories' = MapSet(orgs1, org, list1)
                 /\ everRegistered' = everRegistered \cup {org}
                 /\ res' = Response("addOrgWithRepos", 200)
                 /\ UNCHANGED <<installedRepositories, everAdded, chains,
                                requests, outbound, harnessVars>>

\* isArray is Array.isArray(repos); repos is <<>> when it is not an array
AddOrgWithRepos(org, isArray, repos) ==
    IF org = MissingOrg \/ ~isArray \/ Len(repos) = 0
    THEN /\ res' = Response("addOrgWithRepos", 400)
         /\ UNCHANGED <<regVars, chains, requests, outbound, harnessVars>>
    ELSE LET orgs1 == IF MapHas(orgRepositories, org) THEN orgRepositories
                      ELSE MapSet(orgRepositories, org, <<>>)
             notInstalledRepos ==
                 SelectSeq(repos, LAMBDA r : ~MapHas(installedRepositories, r))
             list1 == PushMissing(orgs1[org], repos)
         IN IF Len(notInstalledRepos) > 0
            THEN /\ orgRepositories' = orgs1
                 /\ res' = Response("addOrgWithRepos", 400)
                 /\ UNCHANGED <<installedRepositories, everAdded, everRegistered,
                                chains, requests, outbound, harnessVars>>
            ELSE /\ Len(list1) <= MaxListLen
                 /\ orgRepositories' = MapSet(orgs1, org, list1)
                 /\ everRegistered' = everRegistered \cup {org}
                 /\ res' = Response("addOrgWithRepos", 200)
                 /\ UNCHANGED <<installedRepositories, everAdded, chains,
                                requests, outbound, harnessVars>>

\* ============================================ checkRepoSafetyAndReport
\* A chain: the repo it was started for, where it stands (pc, outcome), the
\* lengths of the two alert listings it received (NoListing before), whether
\* fetchSecurityReports returned its error report, the showSeal value it
\* posted ("none" before) and the status its webhook was acknowledged with.
NoListing == -1
NewChain(repoFullName, pc, outcome) ==
    [repo |-> repoFullName, pc |-> pc, outcome |-> outcome,
     codeqlAlerts |-> NoListing, dependabotAlerts |-> NoListing,
     fetchFailed |-> FALSE, showSeal |-> "none", ack |-> 200]

\* the chain started from the webhook payload alone, without the registry
\* lookups of lines 136-148
StartChain_FromPayload(repoFullName) ==
    NewChain(repoFullName, "token", "running")
\* the synchronous start of checkRepoSafetyAndReport, up to the token
\* exchange request that getOctokit issues before its first await
StartChain(repoFullName) ==
    IF ~Truthy(MapGet(installedRepositories, repoFullName))
    THEN NewChain(repoFullName, "done", "notInstalled")
    ELSE IF getOrgForRepo(repoFullName) = NullOrg
         THEN NewChain(repoFullName, "done", "noOrg")
         ELSE NewChain(repoFullName, "token", "running")

\* ========================================================= POST /webhook
\* POST /webhook awaiting the chain before it responds (`await
\* checkRepoSafetyAndReport(...)` at line 179): while the chain is suspended
\* on an outbound call no response has been sent
Webhook_Awaits(event, payload) ==
    /\ IF event = "installation"
       THEN LET reg == AddAll(Registry, payload.repositories, payload.login, payload.id)
            IN /\ \A o \in DOMAIN reg.orgs : Len(reg.orgs[o]) <= MaxListLen
               /\ installedRepositories' = reg.installed
               /\ orgRepositories' = reg.orgs
               /\ everAdded' = everAdded \cup Range(payload.repositories)
               /\ everRegistered' = everRegistered \cup {payload.login}
       ELSE UNCHANGED regVars
    /\ IF event \in TriggerEvents
       THEN LET c == StartChain(payload.repoFullName)
            IN /\ Len(chains) < MaxChains
               /\ chains' = Append(chains, IF c.pc = "done" THEN c
                                           ELSE [c EXCEPT !.ack = 0])
               /\ outbound' = IF c.pc = "token" THEN Issue(outbound, "token")
                              ELSE outbound
               /\ res' = IF c.pc = "done" THEN Response("webhook", 200) ELSE res
       ELSE /\ UNCHANGED <<chains, outbound>>
            /\ res' = Response("webhook", 200)
    /\ UNCHANGED <<requests, harnessVars>>
\* payload: [repositories, login, id, repoFullName]
Webhook(event, payload) ==
    /\ IF event = "installation"
       THEN LET reg == AddAll(Registry, payload.repositories, payload.login, payload.id)
            IN /\ \A o \in DOMAIN reg.orgs : Len(reg.orgs[o]) <= MaxListLen
               /\ installedRepositories' = reg.installed
               /\ orgRepositories' = reg.orgs
               /\ everAdded' = everAdded \cup Range(payload.repositories)
               /\ everRegistered' = everRegistered \cup {payload.login}
       ELSE UNCHANGED regVars
    /\ IF event \in TriggerEvents
       THEN LET c == StartChain(payload.repoFullName)
            IN /\ Len(chains) < MaxChains
               /\ chains' = Append(chains, c)
               /\ outbound' = IF c.pc = "token" THEN Issue(outbound, "token")
                              ELSE outbound
       ELSE UNCHANGED <<chains, outbound>>
    /\ res' = Response("webhook", 200)
    /\ UNCHANGED <<requests, harnessVars>>

\* ---- completions of the outbound calls of a chain
\* a chain whose failure is reported to the webhook caller (the handler
\* awaiting the chain and answering 500 when it fails)
ChainFinished_Surfaced(k, outcome) ==
    chains' = [chains EXCEPT ![k] =
        [@ EXCEPT !.pc = "done", !.outcome = outcome,
                  !.ack = IF outcome = "sent" THEN 200 ELSE 500]]

\* the chain ends: the try block completed, or the catch of lines 159-161
\* logged the error
ChainFinished(k, outcome) ==
    chains' = [chains EXCEPT ![k] = [@ EXCEPT !.pc = "done", !.outcome = outcome]]

\* number of alerts a report field stands for (NoListing for an absent field)
Listed(field) ==
    IF field.type = "undefined" THEN NoListing
    ELSE IF field.type = "array" THEN Len(field.items) ELSE 0

\* the classification with a failed fetch treated as "not safe" and posted
\* (showSeal false) instead of thrown into the catch of lines 159-161
ChainClassifyAndPost_PostsOnError(k, report) ==
    LET r == analyzeReports([isArray |-> TRUE,
                             items |-> <<WithName(chains[k].repo, report)>>])
    IN /\ chains' = [chains EXCEPT ![k] =
              [@ EXCEPT !.pc = "notify",
                        !.fetchFailed = report.error,
                        !.dependabotAlerts = Listed(report.dependabot),
                        !.showSeal = IF ~r.threw /\ r.verdicts[1].safeToUse
                                     THEN "true" ELSE "false"]]
       /\ outbound' = Issue(outbound, "notify")
\* analyzeReports([{ repoFullName, ...report }])[0].safeToUse, then axios.post
ChainClassifyAndPost(k, report) ==
    LET r == analyzeReports([isArray |-> TRUE,
                             items |-> <<WithName(chains[k].repo, report)>>])
    IN IF r.threw
       THEN /\ chains' = [chains EXCEPT ![k] =
                   [@ EXCEPT !.pc = "done", !.outcome = "classifyFailed",
                             !.fetchFailed = report.error,
                             !.dependabotAlerts = Listed(report.dependabot)]]
            /\ UNCHANGED outbound
       ELSE /\ chains' = [chains EXCEPT ![k] =
                   [@ EXCEPT !.pc = "notify",
                             !.fetchFailed = report.error,
                             !.dependabotAlerts = Listed(report.dependabot),
                             !.showSeal = IF r.verdicts[1].safeToUse
                                          THEN "true" ELSE "false"]]
            /\ outbound' = Issue(outbound, "notify")

ChainTokenOk(k) ==
    /\ chains[k].pc = "token"
    /\ chains' = [chains EXCEPT ![k] = [@ EXCEPT !.pc = "codeql"]]
    /\ outbound' = Issue(outbound, "codeql")
    /\ UNCHANGED <<regVars, requests, res, harnessVars>>

\* a failed token exchange retried once instead of thrown
ChainTokenFail_Retry(k) ==
    /\ chains[k].pc = "token"
    /\ IF outbound.token <= 1
       THEN /\ outbound' = Issue(outbound, "token")
            /\ UNCHANGED chains
       ELSE /\ ChainFinished(k, "tokenFailed")
            /\ UNCHANGED outbound
    /\ UNCHANGED <<regVars, requests, res, harnessVars>>
ChainTokenFail(k) ==
    /\ chains[k].pc = "token"
    /\ ChainFinished(k, "tokenFailed")
    /\ UNCHANGED <<regVars, requests, outbound, res, harnessVars>>

ChainCodeqlOk(k, n) ==
    /\ chains[k].pc = "codeql"
    /\ chains' = [chains EXCEPT ![k] = [@ EXCEPT !.pc = "dependabot", !.codeqlAlerts = n]]
    /\ outbound' = Issue(outbound, "dependabot")
    /\ UNCHANGED <<regVars, requests, res, harnessVars>>

ChainCodeqlFail(k) ==
    /\ chains[k].pc = "codeql"
    /\ ChainClassifyAndPost(k, ErrorReport)
    /\ UNCHANGED <<regVars, requests, res, harnessVars>>

ChainDependabotOk(k, n) ==
    /\ chains[k].pc = "dependabot"
    /\ ChainClassifyAndPost(k, FetchedReport(chains[k].codeqlAlerts, n))
    /\ UNCHANGED <<regVars, requests, res, harnessVars>>

ChainDependabotFail(k) ==
    /\ chains[k].pc = "dependabot"
    /\ ChainClassifyAndPost(k, ErrorReport)
    /\ UNCHANGED <<regVars, requests, res, harnessVars>>

ChainNotifyOk(k) ==
    /\ chains[k].pc = "notify"
    /\ ChainFinished(k, "sent")
    /\ UNCHANGED <<regVars, requests, outbound, res, harnessVars>>

ChainNotifyFail(k) ==
    /\ chains[k].pc = "notify"
    /\ ChainFinished(k, "notifyFailed")
    /\ UNCHANGED <<regVars, requests, outbound, res, harnessVars>>

\* ============================================== GET /checkIfSafeToUse
\* the loop over a copy of the org's list taken when the request was
\* received (`for (const repo of [...repos])`): entries appended later are
\* not visited
LoopFrom_Copy(q, from) ==
    LET list == SubSeq(orgRepositories[q.org], 1, q.received)
        todo == {j \in from..Len(list) :
                    Truthy(MapGet(installedRepositories, list[j]))}
        next == CHOOSE j \in todo : \A m \in todo : j <= m
    IN IF todo = {}
       THEN [q EXCEPT !.i = Len(list) + 1, !.pc = "done", !.status = 200,
                      !.skipped = @ \cup (from..Len(list))]
       ELSE [q EXCEPT !.i = next, !.pc = "token",
                      !.skipped = @ \cup (from..(next - 1))]
\* The for-of loop of lines 112-120 over the org's list, resumed at index
\* `from`.  `repos` is the array stored in orgRepositories itself, so the
\* loop sees the list as it is when the loop resumes.  Entries whose
\* installation id is falsy are skipped; at the first other entry getOctokit
\* issues the token exchange and the handler suspends; when the list is
\* exhausted the handler answers 200 with the reports collected.  (The
\* owner and repo halves of the name only go into the upstream URLs.)
LoopFrom(q, from) ==
    LET list == orgRepositories[q.org]
        todo == {j \in from..Len(list) :
                    Truthy(MapGet(installedRepositories, list[j]))}
        next == CHOOSE j \in todo : \A m \in todo : j <= m
    IN IF todo = {}
       THEN [q EXCEPT !.i = Len(list) + 1, !.pc = "done", !.status = 200,
                      !.skipped = @ \cup (from..Len(list))]
       ELSE [q EXCEPT !.i = next, !.pc = "token",
                      !.skipped = @ \cup (from..(next - 1))]

\* effect of a request record moving on: the token exchange it issues or
\* the response it sends
Resume(k, q1) ==
    /\ requests' = [requests EXCEPT ![k] = q1]
    /\ outbound' = IF q1.pc = "token" THEN Issue(outbound, "token") ELSE outbound
    /\ res' = IF q1.pc = "done" THEN Response("checkIfSafeToUse", 200) ELSE res

\* GET /checkIfSafeToUse creating the org's list on first reference (as
\* POST /addOrgWithRepos does) instead of answering 404
CheckIfSafeToUse_LazyCreate(org) ==
    IF ~MapHas(orgRepositories, org)
    THEN /\ orgRepositories' = MapSet(orgRepositories, org, <<>>)
         /\ res' = Response("checkIfSafeToUse", 200)
         /\ UNCHANGED <<installedRepositories, everAdded, everRegistered, chains,
                        requests, outbound, harnessVars>>
    ELSE \E k \in RequestIds :
            /\ requests[k].pc = "idle"
            /\ Resume(k, LoopFrom([NewRequest(org) EXCEPT
                                        !.received = Len(orgRepositories[org])], 1))
            /\ UNCHANGED <<regVars, chains, harnessVars>>

CheckIfSafeToUse(org) ==
    IF ~MapHas(orgRepositories, org)
    THEN /\ res' = Response("checkIfSafeToUse", 404)
         /\ UNCHANGED <<regVars, chains, requests, outbound, harnessVars>>
    ELSE \E k \in RequestIds :
            /\ requests[k].pc = "idle"
            /\ Resume(k, LoopFrom([NewRequest(org) EXCEPT
                                        !.received = Len(orgRepositories[org])], 1))
            /\ UNCHANGED <<regVars, chains, harnessVars>>

\* reports.push({ repoFullName, ...report }) and the next loop iteration
PushReport(k, report) ==
    LET q == requests[k]
        name == orgRepositories[q.org][q.i]
    IN Resume(k, LoopFrom([q EXCEPT !.reports = Append(@, WithName(name, report)),
                                    !.positions = Append(@, q.i)],
                          q.i + 1))

ReqTokenOk(k) ==
    /\ requests[k].pc = "token"
    /\ requests' = [requests EXCEPT ![k] = [@ EXCEPT !.pc = "codeql"]]
    /\ outbound' = Issue(outbound, "codeql")
    /\ UNCHANGED <<regVars, chains, res, harnessVars>>

\* getOctokit is awaited outside any try: the handler's promise rejects and
\* res.json(reports) is never reached for the request
ReqTokenFail(k) ==
    /\ requests[k].pc = "token"
    /\ requests' = [requests EXCEPT ![k] = [@ EXCEPT !.pc = "rejected"]]
    /\ UNCHANGED <<regVars, chains, outbound, res, harnessVars>>

ReqCodeqlOk(k, n) ==
    /\ requests[k].pc = "codeql"
    /\ requests' = [requests EXCEPT ![k] = [@ EXCEPT !.pc = "dependabot", !.codeqlAlerts = n]]
    /\ outbound' = Issue(outbound, "dependabot")
    /\ UNCHANGED <<regVars, chains, res, harnessVars>>

ReqCodeqlFail(k) ==
    /\ requests[k].pc = "codeql"
    /\ PushReport(k, ErrorReport)
    /\ UNCHANGED <<regVars, chains, harnessVars>>

ReqDependabotOk(k, n) ==
    /\ requests[k].pc = "dependabot"
    /\ PushReport(k, FetchedReport(requests[k].codeqlAlerts, n))
    /\ UNCHANGED <<regVars, chains, harnessVars>>

ReqDependabotFail(k) ==
    /\ requests[k].pc = "dependabot"
    /\ PushReport(k, ErrorReport)
    /\ UNCHANGED <<regVars, chains, harnessVars>>

\* ================================================================== Next
InstallationPayloads ==
    {[repositories |-> rs, login |-> o, id |-> id, repoFullName |-> ""] :
        rs \in SeqsUpTo(Repos, MaxPayload), o \in Logins, id \in InstallationIds}
RepositoryPayloads ==
    {[repositories |-> <<>>, login |-> "", id |-> 0, repoFullName |-> r] : r \in Repos}
OtherPayloads == {[repositories |-> <<>>, login |-> "", id |-> 0, repoFullName |-> ""]}
Payloads(event) ==
    IF event = "installation" THEN InstallationPayloads
    ELSE IF event \in TriggerEvents THEN RepositoryPayloads ELSE OtherPayloads

\* the four routes, as a client and the platform's non-trigger webhooks
\* drive them
RegistryNext ==
    \/ \E r \in Repos : CheckIfAdded(r)
    \/ \E org \in Orgs \cup {MissingOrg}, repos \in SeqsUpTo(Repos, MaxPayload) :
            AddOrgWithRepos(org, TRUE, repos)
    \/ \E org \in Orgs \cup {MissingOrg} : AddOrgWithRepos(org, FALSE, <<>>)
    \/ \E org \in Orgs \cup {MissingOrg} : CheckIfSafeToUse(org)
    \/ \E event \in EventTypes \ TriggerEvents :
            \E payload \in Payloads(event) : Webhook(event, payload)

TriggerNext ==
    \E event \in TriggerEvents : \E payload \in Payloads(event) : Webhook(event, payload)

\* completions of the outbound calls of the chains
ChainNext ==
    \E k \in 1..Len(chains) :
        \/ ChainTokenOk(k)
        \/ ChainTokenFail(k)
        \/ \E n \in 0..MaxAlerts : ChainCodeqlOk(k, n)
        \/ ChainCodeqlFail(k)
        \/ \E n \in 0..MaxAlerts : ChainDependabotOk(k, n)
        \/ ChainDependabotFail(k)
        \/ ChainNotifyOk(k)
        \/ ChainNotifyFail(k)

\* completions of the outbound calls of the GET /checkIfSafeToUse requests
RequestNext ==
    \E k \in RequestIds :
        \/ ReqTokenOk(k)
        \/ ReqTokenFail(k)
        \/ \E n \in 0..MaxAlerts : ReqCodeqlOk(k, n)
        \/ ReqCodeqlFail(k)
        \/ \E n \in 0..MaxAlerts : ReqDependabotOk(k, n)
        \/ ReqDependabotFail(k)

\* one org's registrations and GET /checkIfSafeToUse requests with their
\* continuations; the upstream listings answer with no alerts or fail
SnapshotNext ==
    \/ \E payload \in InstallationPayloads : Webhook("installation", payload)
    \/ \E org \in Logins, repos \in SeqsUpTo(Repos, MaxPayload) :
            AddOrgWithRepos(org, TRUE, repos)
    \/ \E org \in Logins : CheckIfSafeToUse(org)
    \/ \E k \in RequestIds :
        \/ ReqTokenOk(k)
        \/ ReqTokenFail(k)
        \/ ReqCodeqlOk(k, 0)
        \/ ReqCodeqlFail(k)
        \/ ReqDependabotOk(k, 0)
        \/ ReqDependabotFail(k)
SpecSnapshot == Init /\ [][SnapshotNext]_vars

\* the whole server
Next == RegistryNext \/ TriggerNext \/ ChainNext \/ RequestNext
Spec == Init /\ [][Next]_vars

\* The server under three environments.  Chains and GET /checkIfSafeToUse
\* requests only read the two maps and write nothing the handlers read, so
\* each is followed in a specification of its own.
\* SpecRegistry: the four routes, with every outbound call still pending.
SpecRegistry == Init /\ [][RegistryNext]_vars

\* SpecWebhook: the webhooks of every event type and the chains they start.
WebhookNext ==
    \/ \E event \in EventTypes : \E payload \in Payloads(event) : Webhook(event, payload)
    \/ ChainNext
SpecWebhook == Init /\ [][WebhookNext]_vars

\* SpecRequests: the four routes and the upstream calls of the
\* GET /checkIfSafeToUse requests.
RequestsNext == RegistryNext \/ RequestNext
SpecRequests == Init /\ [][RequestsNext]_vars

\* ==================================================== Classifier harness
\* analyzeReports applied to every argument within the bounds
HarnessFields ==
    {UndefinedField, ClearCodeql, ClearDependabot, StringField(<<"Failed">>)}
        \cup {ArrayField(n) : n \in 1..MaxAlerts}
HarnessReports ==
    {WithName(r, [error |-> c.type = "undefined" /\ d.type = "undefined",
                  codeql |-> c, dependabot |-> d]) :
        r \in Repos, c \in HarnessFields, d \in HarnessFields}
HarnessInputs ==
    {NoInput} \cup {[isArray |-> TRUE, items |-> items] :
                        items \in SeqsUpTo(HarnessReports, MaxReports)}

InitClassifier ==
    /\ installedRepositories = EmptyMap
    /\ orgRepositories = EmptyMap
    /\ everAdded = {}
    /\ everRegistered = {}
    /\ chains = <<>>
    /\ requests = [k \in RequestIds |-> NewRequest("")]
    /\ outbound = NoCalls
    /\ res = Response("none", 0)
    /\ reportList \in HarnessInputs
    /\ result = NotCalled

Classify ==
    /\ ~result.called
    /\ LET r == analyzeReports(reportList)
       IN result' = [called |-> TRUE, threw |-> r.threw, verdicts |-> r.verdicts]
    /\ UNCHANGED <<regVars, chains, requests, outbound, res, reportList>>

NextClassifier == Classify

SpecClassifier == InitClassifier /\ [][NextClassifier]_vars

\* ================================================================ Claims
ListOf(org) == IF MapHas(orgRepositories, org) THEN orgRepositories[org] ELSE <<>>
InstalledKeys == DOMAIN installedRepositories

\* C1: GET /checkIfAdded for repo r answers 200 when addRepository has been
\* called for r, and 404 when it never has.
C1_CheckIfAdded ==
    [][\A r \in Repos :
          CheckIfAdded(r) => res'.status = IF r \in everAdded THEN 200 ELSE 404]_vars

\* a checkIfAdded request was answered 200 while another repo was never added
C1_Witness ==
    /\ res = Response("checkIfAdded", 200)
    /\ everAdded /= {}
    /\ everAdded /= Repos

\* C2: a POST /addOrgWithRepos batch that lists a repo that is not installed
\* is answered 400 and adds none of its repos to the org's list (nor to any
\* other list).
C2_BatchRejected ==
    [][\A org \in Orgs, repos \in SeqsUpTo(Repos, MaxPayload) :
          (/\ res'.route = "addOrgWithRepos"
           /\ \E i \in 1..Len(repos) : ~MapHas(installedRepositories, repos[i])
           /\ AddOrgWithRepos(org, TRUE, repos))
          => /\ res' = Response("addOrgWithRepos", 400)
             /\ \A o \in Orgs : ListOf(o)' = ListOf(o)
             /\ installedRepositories' = installedRepositories]_vars

\* a batch naming org o2 was rejected while an installed repo, absent from
\* o2's list, and a repo that is not installed both exist
C2_Witness ==
    /\ res = Response("addOrgWithRepos", 400)
    /\ MapHas(orgRepositories, "o2")
    /\ orgRepositories["o2"] = <<>>
    /\ InstalledKeys /= {}
    /\ InstalledKeys /= Repos

\* C3: no org's list contains the same repository more than once.
C3_NoDuplicates ==
    \A o \in DOMAIN orgRepositories :
        \A r \in Repos : Count(orgRepositories[o], r) <= 1

\* C4: an installation webhook listing N repositories leaves each of them
\* in installedRepositories mapped to the payload's installation id, adds no
\* other key, and leaves the account's list containing each of them once.
C4_Installation ==
    [][\A payload \in InstallationPayloads :
          (Webhook("installation", payload) /\ payload.repositories /= <<>>)
          => /\ DOMAIN installedRepositories' =
                    InstalledKeys \cup Range(payload.repositories)
             /\ \A r \in Range(payload.repositories) :
                    /\ installedRepositories'[r] = payload.id
                    /\ Count(ListOf(payload.login)', r) = 1]_vars

\* C5: every repository in an org's list is a key of installedRepositories.
C5_ListedAreInstalled ==
    \A o \in DOMAIN orgRepositories :
        Range(orgRepositories[o]) \subseteq InstalledKeys

\* an org registered through POST /addOrgWithRepos holds a repository
C5_Witness ==
    /\ MapHas(orgRepositories, "o2")
    /\ orgRepositories["o2"] /= <<>>

\* C6: GET /checkIfSafeToUse for an org that is not registered answers 404,
\* changes neither map and issues no outbound call.
C6_UnknownOrg ==
    [][\A org \in Orgs \cup {MissingOrg} :
          (CheckIfSafeToUse(org) /\ ~MapHas(orgRepositories, org))
          => /\ res' = Response("checkIfSafeToUse", 404)
             /\ UNCHANGED <<installedRepositories, orgRepositories, outbound>>
             /\ UNCHANGED requests]_vars

\* the 404 was answered for o2 while o1 is registered
C6_Witness ==
    /\ res = Response("checkIfSafeToUse", 404)
    /\ ~MapHas(orgRepositories, "o2")
    /\ MapHas(orgRepositories, "o1")

\* C7: every POST /webhook is answered 200, and the acknowledgement of a
\* trigger webhook stays 200 whatever the outcome (success, or failure at
\* any stage) of the chain it started.
C7_WebhookAlways200 ==
    /\ res.route = "webhook" => res.status = 200
    /\ \A k \in 1..Len(chains) : chains[k].ack = 200

\* a chain has ended in failure and its webhook stays acknowledged with 200
C7_Witness ==
    \E k \in 1..Len(chains) :
        /\ chains[k].pc = "done"
        /\ chains[k].outcome \in {"tokenFailed", "classifyFailed", "notifyFailed"}
        /\ chains[k].ack = 200

\* C8: for a non-empty list of reports, analyzeReports returns one verdict
\* per report, in order, with the report's repoFullName, and safeToUse is
\* true exactly when both codeql and dependabot are the clear sentinel.
IsClearSentinel(field) == field \in {ClearCodeql, ClearDependabot}
C8_Verdicts ==
    (result.called /\ reportList.isArray /\ Len(reportList.items) > 0)
    => /\ ~result.threw
       /\ Len(result.verdicts) = Len(reportList.items)
       /\ \A i \in 1..Len(reportList.items) :
            /\ result.verdicts[i].repoFullName = reportList.items[i].repoFullName
            /\ result.verdicts[i].safeToUse =
                  (/\ IsClearSentinel(reportList.items[i].codeql)
                   /\ IsClearSentinel(reportList.items[i].dependabot))

\* C9: analyzeReports throws, returning no verdicts, when its argument is
\* the empty list or is not a list.
C9_ThrowsOnEmpty ==
    (result.called /\ (~reportList.isArray \/ Len(reportList.items) = 0))
    => (result.threw /\ result.verdicts = <<>>)

\* analyzeReports was called with the empty list and threw
C9_Witness ==
    /\ result.called
    /\ result.threw
    /\ reportList.isArray
    /\ reportList.items = <<>>

\* C10: a GET /checkIfSafeToUse request for a known org is never aborted by
\* an upstream failure: it completes with 200, and each repository whose
\* upstream calls failed has an entry with the error field.
C10_AlwaysCompletes ==
    \A k \in RequestIds :
        /\ requests[k].pc /= "rejected"
        /\ requests[k].pc = "done" => requests[k].status = 200

\* ---------------------------------------------------------------- C11
\* C11: POST /addOrgWithRepos answers 400 exactly when org is missing, or
\* repos is not a list, or repos is empty, or some listed repository is not
\* installed; in every other case it answers 200 and afterwards every
\* listed repository is in that org's list.
C11_Rejected(org, isArray, repos) ==
    \/ org = MissingOrg
    \/ ~isArray
    \/ Len(repos) = 0
    \/ \E r \in Range(repos) : ~MapHas(installedRepositories, r)

C11_Answer(org, isArray, repos) ==
    IF C11_Rejected(org, isArray, repos)
    THEN res'.status = 400
    ELSE /\ res'.status = 200
         /\ Range(repos) \subseteq Range(ListOf(org)')

\* (the implication AddOrgWithRepos => C11_Answer, written with the answer
\* first: a step that answers as claimed needs no look at the handler)
C11_AddOrgStatus ==
    [][\A org \in Orgs \cup {MissingOrg}, isArray \in BOOLEAN :
         \A repos \in (IF isArray THEN SeqsUpTo(Repos, MaxPayload) ELSE {<<>>}) :
            \/ res'.route /= "addOrgWithRepos"
            \/ C11_Answer(org, isArray, repos)
            \/ ~AddOrgWithRepos(org, isArray, repos)]_vars

\* an accepted batch of two repositories for o2, both now in o2's list
C11_Witness ==
    /\ res = Response("addOrgWithRepos", 200)
    /\ MapHas(orgRepositories, "o2")
    /\ Repos \subseteq Range(orgRepositories["o2"])
    /\ Repos \subseteq InstalledKeys

\* ---------------------------------------------------------------- C12
\* C12: the chain never reports an unsafe or unknown repository as safe: a
\* notification with showSeal = true is posted only by a run whose token
\* exchange succeeded and whose two alert fetches both succeeded and both
\* returned an empty list; when either list is non-empty the posted
\* showSeal is false.
C12_Posted(c) == c.showSeal /= "none"
C12_SealOnlyWhenClear ==
    \A k \in 1..Len(chains) :
        LET c == chains[k]
        IN /\ c.showSeal = "true" =>
                /\ c.outcome \in {"running", "sent", "notifyFailed"}
                /\ ~c.fetchFailed
                /\ c.codeqlAlerts = 0
                /\ c.dependabotAlerts = 0
           /\ (C12_Posted(c) /\ (c.codeqlAlerts > 0 \/ c.dependabotAlerts > 0))
                => c.showSeal = "false"
           /\ C12_Posted(c) <=> c.pc = "notify" \/ c.outcome \in {"sent", "notifyFailed"}

\* a run that posted showSeal = true after two empty listings
C12_Witness ==
    \E k \in 1..Len(chains) :
        /\ chains[k].outcome = "sent"
        /\ chains[k].showSeal = "true"
        /\ chains[k].codeqlAlerts = 0
        /\ chains[k].dependabotAlerts = 0
        /\ outbound.notify > 0

\* ---------------------------------------------------------------- C13
\* C13: when the token exchange or either alert fetch fails during the
\* chain, the chain ends (logged, swallowed) without any notification POST,
\* neither true nor false, and without changing installedRepositories or
\* orgRepositories.
C13_FailureStep(k) ==
    ChainTokenFail(k) \/ ChainCodeqlFail(k) \/ ChainDependabotFail(k)

C13_FailureEndsSilently ==
    [][\A k \in 1..Len(chains) :
         (chains[k].pc \in {"token", "codeql", "dependabot"} /\ C13_FailureStep(k))
         => /\ chains'[k].pc = "done"
            /\ chains'[k].showSeal = "none"
            /\ outbound' = outbound
            /\ installedRepositories' = installedRepositories
            /\ orgRepositories' = orgRepositories
            /\ res' = res]_vars

\* a chain that ended on a failed alert fetch, nothing posted
C13_Witness ==
    \E k \in 1..Len(chains) :
        /\ chains[k].pc = "done"
        /\ chains[k].fetchFailed
        /\ chains[k].showSeal = "none"
        /\ outbound.codeql > 0
        /\ outbound.notify = 0

\* ---------------------------------------------------------------- C14
\* C14: for the trigger webhooks the 200 acknowledgement does not wait for
\* the chain: the handler step that starts the chain sends the response
\* while at most the token exchange request has been issued and none of the
\* outbound calls has completed, so every later step of the chain (the
\* completion of the token exchange, the alert fetches, the notification
\* POST) happens after the response.
C14_Pending == {"token", "codeql", "dependabot", "notify"}
C14_AckBeforeChain ==
    [][/\ \A event \in TriggerEvents : \A payload \in Payloads(event) :
            (Len(chains') = Len(chains) + 1 /\ Webhook(event, payload))
            => LET c == chains'[Len(chains')]
               IN /\ res' = Response("webhook", 200)
                  /\ c.ack = 200
                  /\ c.pc \in {"token", "done"}
                  /\ c.codeqlAlerts = NoListing /\ c.dependabotAlerts = NoListing
                  /\ c.showSeal = "none"
                  /\ outbound'.codeql = outbound.codeql
                  /\ outbound'.dependabot = outbound.dependabot
                  /\ outbound'.notify = outbound.notify
       /\ \A k \in 1..Len(chains) :
            (chains[k].pc \in C14_Pending /\ chains'[k] /= chains[k])
            => chains[k].ack = 200]_vars

\* the webhook has been answered 200 while the chain's token exchange is
\* still outstanding
C14_Witness ==
    /\ res = Response("webhook", 200)
    /\ \E k \in 1..Len(chains) :
        /\ chains[k].pc = "token"
        /\ chains[k].ack = 200
    /\ outbound.token > 0
    /\ outbound.codeql = 0

\* ---------------------------------------------------------------- C15
\* C15: nothing is retried: each trigger webhook causes at most one token
\* exchange, at most one call of each alert-listing endpoint and at most one
\* notification POST, so the number of notification POSTs never exceeds the
\* number of trigger webhooks received.  (Each chain is one trigger webhook;
\* a call counted in `outbound` belongs to a chain that has reached the
\* step that issues it.)
C15_Reached(stage) ==
    Cardinality({k \in 1..Len(chains) :
        LET c == chains[k]
        IN CASE stage = "token" -> c.outcome \notin {"notInstalled", "noOrg"}
             [] stage = "codeql" -> c.pc \in {"codeql", "dependabot", "notify"}
                                    \/ c.outcome \in {"classifyFailed", "sent", "notifyFailed"}
             [] stage = "dependabot" -> c.codeqlAlerts /= NoListing
             [] stage = "notify" -> c.showSeal /= "none"})

C15_NoRetry ==
    /\ \A stage \in {"token", "codeql", "dependabot", "notify"} :
            outbound[stage] <= C15_Reached(stage)
    /\ outbound.notify <= Len(chains)

\* a chain that went through all four outbound calls, each made once
C15_Witness ==
    /\ Len(chains) > 0
    /\ \A k \in 1..Len(chains) : chains[k].outcome = "sent"
    /\ \A stage \in {"token", "codeql", "dependabot", "notify"} :
            outbound[stage] = Len(chains)

\* ---------------------------------------------------------------- C16
\* C16: an org becomes known to GET /checkIfSafeToUse (a key of
\* orgRepositories, the test of line 105) only through an installation
\* webhook for that account or a POST /addOrgWithRepos that was answered
\* 200; an org whose only registration attempts were rejected with 400 is
\* still unknown, so GET /checkIfSafeToUse still answers 404 for it.
C16_KnownOnlyByRegistration ==
    \A org \in DOMAIN orgRepositories : org \in everRegistered

\* ---------------------------------------------------------------- C17
\* C17: a GET /checkIfSafeToUse request reports on a consistent snapshot of
\* the registry: its response contains exactly one entry, in list order,
\* for each repository that was in the org's list when the request was
\* received, even when installation webhooks or POST /addOrgWithRepos
\* requests for the same org are handled while the request is suspended on
\* its upstream calls.  (Positions the loop skipped for a falsy
\* installation id are left out of the comparison.)
C17_Snapshot ==
    \A k \in RequestIds :
        LET q == requests[k]
        IN q.pc = "done" =>
            /\ Len(q.reports) = Len(q.positions)
            /\ Range(q.positions) = (1..q.received) \ q.skipped

\* C17 as the code has it: the loop runs over the stored list itself, so the
\* response has one entry, in list order, for each position of the org's
\* list as it is when the response is sent -- the positions of the list at
\* receipt and those appended while the request was suspended -- except
\* the positions skipped for a falsy installation id; each entry names the
\* repository at its position.
C17_Answered(q, list) ==
    /\ Len(q.reports) = Len(q.positions)
    /\ \A j \in 1..Len(q.positions) :
            /\ q.positions[j] \in 1..Len(list)
            /\ q.reports[j].repoFullName = list[q.positions[j]]
            /\ \A m \in 1..(j - 1) : q.positions[m] < q.positions[j]
    /\ Range(q.positions) \cup q.skipped = 1..(q.i - 1)
    /\ Range(q.positions) \cap q.skipped = {}
    /\ q.received <= q.i - 1

C17_LiveList ==
    [][\A k \in RequestIds :
         LET q == requests'[k]
             list == orgRepositories'[q.org]
         IN q.pc = "done" =>
                /\ C17_Answered(q, list)
                /\ requests[k].pc /= "done" => q.i - 1 = Len(list)]_vars

\* a response with an entry for a repository that was appended to the list
\* while the request was suspended
C17_Witness ==
    \E k \in RequestIds :
        /\ requests[k].pc = "done"
        /\ requests[k].received > 0
        /\ Len(requests[k].reports) > requests[k].received

\* ---------------------------------------------------------------- C18
\* C18: every key of installedRepositories appears in the list of at least
\* one org, so getOrgForRepo never returns null for an installed repository
\* and the 'Organization not found' exit of checkRepoSafetyAndReport (lines
\* 145-148) is never taken.
C18_InstalledHaveOrg ==
    /\ \A r \in InstalledKeys :
            /\ \E o \in DOMAIN orgRepositories : r \in Range(orgRepositories[o])
            /\ getOrgForRepo(r) /= NullOrg
    /\ \A k \in 1..Len(chains) : chains[k].outcome /= "noOrg"

\* a chain for an installed repository that went past the org lookup
C18_Witness ==
    \E k \in 1..Len(chains) :
        /\ chains[k].repo \in InstalledKeys
        /\ chains[k].outcome /= "notInstalled"
        /\ getOrgForRepo(chains[k].repo) = "o1"

\* ---------------------------------------------------------------- C19
\* C19: a trigger webhook for a repository that is not a key of
\* installedRepositories triggers no outbound call at all (no token
\* exchange, no alert fetch, no notification POST), neither in the handler
\* nor later, and leaves both maps unchanged.
C19_NoCallsForUnknownRepo ==
    [][/\ \A event \in TriggerEvents : \A payload \in Payloads(event) :
            (/\ Len(chains') = Len(chains) + 1
             /\ ~MapHas(installedRepositories, payload.repoFullName)
             /\ Webhook(event, payload))
            => /\ outbound' = outbound
               /\ installedRepositories' = installedRepositories
               /\ orgRepositories' = orgRepositories
               /\ chains'[Len(chains')].pc = "done"
               /\ chains'[Len(chains')].outcome = "notInstalled"
       /\ \A k \in 1..Len(chains) :
            chains[k].outcome = "notInstalled" => chains'[k] = chains[k]]_vars

\* a trigger webhook for an unknown repository has been answered and no
\* outbound call has been made
C19_Witness ==
    /\ res = Response("webhook", 200)
    /\ \E k \in 1..Len(chains) :
        /\ chains[k].outcome = "notInstalled"
        /\ chains[k].repo \notin InstalledKeys
    /\ outbound = NoCalls

\* ---------------------------------------------------------------- C20
\* C20: installation state is never removed: once a repository is a key of
\* installedRepositories it remains one, so once GET /checkIfAdded would
\* answer 200 for a repository it answers 200 for it on every later
\* request, and no org's list ever loses an entry (every step leaves each
\* list as a prefix of its new value).
C20_IsPrefix(s, t) == Len(s) <= Len(t) /\ SubSeq(t, 1, Len(s)) = s
C20_NeverRemoved ==
    [][/\ InstalledKeys \subseteq InstalledKeys'
       /\ \A r \in Repos :
            CheckIfAddedStatus(r) = 200 => CheckIfAddedStatus(r)' = 200
       /\ \A o \in DOMAIN orgRepositories :
            /\ o \in DOMAIN orgRepositories'
            /\ C20_IsPrefix(orgRepositories[o], orgRepositories'[o])]_vars

\* both repositories installed and listed, GET /checkIfAdded answered 200
C20_Witness ==
    /\ InstalledKeys = Repos
    /\ res = Response("checkIfAdded", 200)
    /\ MapHas(orgRepositories, "o1")
    /\ Len(orgRepositories["o1"]) = MaxListLen
====
